---- MODULE Spec2Model ----
(***************************************************************************)
(* Model of the form-progress storage manager (class FormProgressStorage). *)
(* The manager owns a configuration and one bound storage adapter; its     *)
(* operations derive a key from (formId, sessionId) and delegate to the    *)
(* adapter.  The adapters themselves (LocalStorageAdapter,                 *)
(* SessionStorageAdapter, ServerStorageAdapter) are imported from          *)
(* './adapters'; their contract is taken from section 4.1 of the           *)
(* specification.                                                          *)
(*                                                                         *)
(* An optional value (a JavaScript null / undefined / omitted field) is    *)
(* modelled as a set with at most one element: {} is absent, {v} is v.     *)
(***************************************************************************)
EXTENDS Naturals, Sequences, FiniteSets, TLC

VARIABLES
    constructed,  \* TRUE once the constructor has returned a manager
    config,       \* this.config
    adapter,      \* this.adapter (the variant of the bound adapter instance)
    store,        \* contents of the three storage media, by derived key
    lastOp,       \* the most recent manager call and how it completed
    lastWrite,    \* history: per key, the latest completed write through the manager
    nOps,         \* number of manager calls made so far
    calc,         \* a calculateCompletionPercentage call: its arguments and result
    created,      \* the createProgress call made: its arguments and the record returned
    guard,        \* the latest render of a guard view: component, props and output
    inFlight,     \* calls suspended at their await: what each read when it was called
    settled,      \* the suspended call that resumed last
    history       \* history: per key, the writes issued and landed, and whether calls overlapped

managerVars == <<constructed, config, adapter, store, lastOp, lastWrite, nOps>>
\* What the storage operations of the manager leave alone.
overlapVars == <<inFlight, settled, history>>
auxVars == <<calc, created, guard, overlapVars>>
vars == <<managerVars, auxVars>>

(***************************************************************************)
(* Bounds and input sets                                                   *)
(***************************************************************************)
MaxOps == 4
MaxSwitchOps == 6
MaxFields == 2
MaxTotalFields == 3
MaxCreateOps == 3
MaxOverlapOps == 4
MaxInFlight == 2

\* (formId, sessionId) pairs; "_" is the separator generateKey inserts.
Pairs == {<<"a", "_a">>, <<"a_", "a">>, <<"a", "a">>}
FormDatas == {[name |-> ""], [name |-> "Alice"]}
RecordsOf(pairs, datas) ==
    {[formId |-> p[1], sessionId |-> p[2], formData |-> d] : p \in pairs, d \in datas}
Records == RecordsOf(Pairs, FormDatas)

\* FormProgressConfig['storage'] values: the four declared ones, an
\* unrecognized non-empty string and the (falsy) empty string.
DeclaredStorage == {"localStorage", "sessionStorage", "server", "indexedDB"}
StorageValues == DeclaredStorage \cup {"bogus", ""}
RetentionChoices == {7, 30}
ConfigsOf(storages, retentions) ==
    [enabled : BOOLEAN, storage : storages, retentionDays : retentions]
Configs == ConfigsOf(StorageValues, RetentionChoices)
\* Partial<FormProgressConfig>: every field optional.
Optional(S) == {{}} \cup {{v} : v \in S}
PartialsOf(storages, retentions) ==
    [enabled : Optional(BOOLEAN), storage : Optional(storages),
     retentionDays : Optional(retentions)]
PartialConfigs == PartialsOf(StorageValues, RetentionChoices)

AdapterKinds == {"LocalStorageAdapter", "SessionStorageAdapter", "ServerStorageAdapter"}
NoAdapter == "none"
Media == {"localStorage", "sessionStorage", "server"}
\* The error an adapter call fails with when its medium rejects the call.
StorageFailures == {"StorageFailure"}
Faults == Optional(StorageFailures)
NotImplemented == "IndexedDB adapter not yet implemented"

\* The inputs a caller draws from: every input of the model, and a narrower
\* selection for long call sequences that switch between two storage media.
AllInputs ==
    [configs |-> Configs, partials |-> PartialConfigs, pairs |-> Pairs,
     records |-> Records, faults |-> Faults, maxOps |-> MaxOps]
SwitchStorage == {"localStorage", "sessionStorage"}
SwitchPairs == {<<"a", "_a">>, <<"a", "a">>}
OverlapPairs == {<<"a", "a">>}
OverlapInputs ==
    [configs |-> ConfigsOf(SwitchStorage, {7}),
     partials |-> PartialsOf(SwitchStorage, {}),
     pairs |-> OverlapPairs,
     records |-> RecordsOf(OverlapPairs, {[name |-> "Alice"], [name |-> "Bob"]}),
     faults |-> Faults, maxOps |-> MaxOverlapOps]
SwitchInputs ==
    [configs |-> ConfigsOf(SwitchStorage, {7}),
     partials |-> PartialsOf(SwitchStorage, {}),
     pairs |-> SwitchPairs,
     records |-> RecordsOf(SwitchPairs, {[name |-> "Alice"]}),
     faults |-> Faults, maxOps |-> MaxSwitchOps]

(***************************************************************************)
(* createAdapter: the switch over the storage type.                        *)
(***************************************************************************)
\* Variant: the 'indexedDB' case falls through to the default arm.
createAdapterFallback(storageType) ==
    CASE storageType = "sessionStorage" -> [threw |-> {}, adapter |-> "SessionStorageAdapter"]
      [] storageType = "server"         -> [threw |-> {}, adapter |-> "ServerStorageAdapter"]
      [] OTHER                          -> [threw |-> {}, adapter |-> "LocalStorageAdapter"]

createAdapter(storageType) ==
    CASE storageType = "localStorage"   -> [threw |-> {}, adapter |-> "LocalStorageAdapter"]
      [] storageType = "sessionStorage" -> [threw |-> {}, adapter |-> "SessionStorageAdapter"]
      [] storageType = "server"         -> [threw |-> {}, adapter |-> "ServerStorageAdapter"]
      [] storageType = "indexedDB"      -> [threw |-> {NotImplemented}, adapter |-> NoAdapter]
      [] OTHER                          -> [threw |-> {}, adapter |-> "LocalStorageAdapter"]

(***************************************************************************)
(* generateKey: `${formId}_${sessionId}`                                   *)
(***************************************************************************)
generateKey(formId, sessionId) == formId \o "_" \o sessionId

Keys == {generateKey(p[1], p[2]) : p \in Pairs}

(***************************************************************************)
(* The adapter contract (specification section 4.1).  Each adapter variant *)
(* persists into its own medium; a call either takes effect or is rejected *)
(* by the medium with a StorageFailure and leaves the medium unchanged.    *)
(* `fault` is {} when the medium accepts the call and {e} when it rejects. *)
(***************************************************************************)
MediumOf(adp) ==
    CASE adp = "LocalStorageAdapter"   -> "localStorage"
      [] adp = "SessionStorageAdapter" -> "sessionStorage"
      [] adp = "ServerStorageAdapter"  -> "server"

AdapterSave(adp, st, key, record, fault) ==
    [store  |-> IF fault = {} THEN [st EXCEPT ![MediumOf(adp)][key] = {record}] ELSE st,
     error  |-> fault,
     result |-> {}]

AdapterLoad(adp, st, key, fault) ==
    [store  |-> st,
     error  |-> fault,
     result |-> IF fault = {} THEN st[MediumOf(adp)][key] ELSE {}]

AdapterDelete(adp, st, key, fault) ==
    [store  |-> IF fault = {} THEN [st EXCEPT ![MediumOf(adp)][key] = {}] ELSE st,
     error  |-> fault,
     result |-> {}]

AdapterClear(adp, st, fault) ==
    [store  |-> IF fault = {} THEN [st EXCEPT ![MediumOf(adp)] = [k \in Keys |-> {}]] ELSE st,
     error  |-> fault,
     result |-> {}]

Call(adp, method, key) == [adapter |-> adp, method |-> method, key |-> key]

(***************************************************************************)
(* How a manager call completes: what it returned or threw, the adapter    *)
(* calls it made, whether it wrote to console.error, and the media after.  *)
(***************************************************************************)
Completion(outcome, error, result, calls, logged, st) ==
    [outcome |-> outcome, error |-> error, result |-> result,
     calls |-> calls, logged |-> logged, store |-> st]

\* Variant: the catch block logs and does not re-raise.
LogAndSwallow(r, call) ==
    IF r.error = {}
    THEN Completion("returned", {}, r.result, <<call>>, FALSE, r.store)
    ELSE Completion("returned", {}, {}, <<call>>, TRUE, r.store)

\* try { await adapter call } catch (error) { console.error(...); throw error; }
LogAndRethrow(r, call) ==
    IF r.error = {}
    THEN Completion("returned", {}, r.result, <<call>>, FALSE, r.store)
    ELSE Completion("threw", r.error, {}, <<call>>, TRUE, r.store)

\* Variant: the catch block of loadProgress re-raises as the write paths do.
LogAndPropagate(r, call) ==
    IF r.error = {}
    THEN Completion("returned", {}, r.result, <<call>>, FALSE, r.store)
    ELSE Completion("threw", r.error, {}, <<call>>, TRUE, r.store)

\* try { return await adapter.load(key) } catch (error) { console.error(...); return null; }
LogAndReturnNull(r, call) ==
    IF r.error = {}
    THEN Completion("returned", {}, r.result, <<call>>, FALSE, r.store)
    ELSE Completion("returned", {}, {}, <<call>>, TRUE, r.store)

\* Variant: saveProgress without the `if (!this.config.enabled) return` guard.
saveProgressUnguarded(cfg, adp, st, progress, fault) ==
    LET key == generateKey(progress.formId, progress.sessionId)
    IN  LogAndRethrow(AdapterSave(adp, st, key, progress, fault), Call(adp, "save", key))

\* Variant: saveProgress whose catch block does not re-raise.
saveProgressSwallow(cfg, adp, st, progress, fault) ==
    IF ~cfg.enabled
    THEN Completion("returned", {}, {}, <<>>, FALSE, st)
    ELSE LET key == generateKey(progress.formId, progress.sessionId)
         IN  LogAndSwallow(AdapterSave(adp, st, key, progress, fault),
                           Call(adp, "save", key))

\* Variant: the adapter call is not awaited, so saveProgress settles before
\* the write has landed.
saveProgressNotAwaited(cfg, adp, st, progress, fault) ==
    IF ~cfg.enabled
    THEN Completion("returned", {}, {}, <<>>, FALSE, st)
    ELSE LET key == generateKey(progress.formId, progress.sessionId)
         IN  Completion("returned", {}, {}, <<Call(adp, "save", key)>>, FALSE, st)

saveProgress(cfg, adp, st, progress, fault) ==
    IF ~cfg.enabled
    THEN Completion("returned", {}, {}, <<>>, FALSE, st)
    ELSE LET key == generateKey(progress.formId, progress.sessionId)
         IN  LogAndRethrow(AdapterSave(adp, st, key, progress, fault),
                           Call(adp, "save", key))

loadProgress(cfg, adp, st, formId, sessionId, fault) ==
    IF ~cfg.enabled
    THEN Completion("returned", {}, {}, <<>>, FALSE, st)
    ELSE LET key == generateKey(formId, sessionId)
         IN  LogAndReturnNull(AdapterLoad(adp, st, key, fault),
                              Call(adp, "load", key))

\* Variant: deleteProgress whose catch block does not re-raise.
deleteProgressSwallow(adp, st, formId, sessionId, fault) ==
    LET key == generateKey(formId, sessionId)
    IN  LogAndSwallow(AdapterDelete(adp, st, key, fault), Call(adp, "delete", key))

\* Variant: deleteProgress returns early on a disabled manager, as saveProgress does.
deleteProgressWhenEnabled(adp, st, formId, sessionId, fault) ==
    LET key == generateKey(formId, sessionId)
    IN  IF ~config.enabled
        THEN Completion("returned", {}, {}, <<>>, FALSE, st)
        ELSE LogAndRethrow(AdapterDelete(adp, st, key, fault), Call(adp, "delete", key))

deleteProgress(adp, st, formId, sessionId, fault) ==
    LET key == generateKey(formId, sessionId)
    IN  LogAndRethrow(AdapterDelete(adp, st, key, fault), Call(adp, "delete", key))

\* Variant: clearAllProgress whose catch block does not re-raise.
clearAllProgressSwallow(adp, st, fault) ==
    LogAndSwallow(AdapterClear(adp, st, fault), Call(adp, "clear", ""))

clearAllProgress(adp, st, fault) ==
    LogAndRethrow(AdapterClear(adp, st, fault), Call(adp, "clear", ""))

(***************************************************************************)
(* Overlapping calls.  Each operation is an async method: called, it runs  *)
(* synchronously up to its await, reading this.config.enabled, deriving    *)
(* the key and invoking this.adapter; it resumes when the adapter call     *)
(* settles.  The adapter call takes effect on the medium when it settles.  *)
(***************************************************************************)
\* A call suspended at its await: its arguments and what it read when called.
Suspended(seq, op, formId, sessionId, record, cfg, adp) ==
    [seq |-> seq, op |-> op, formId |-> formId, sessionId |-> sessionId,
     record |-> record, enabled |-> cfg.enabled, adapter |-> adp]

\* Variant: the adapter and the enabled flag are read when the call resumes.
ResumeOnBoundAdapter(p, st, fault) ==
    CASE p.op = "saveProgress" ->
           saveProgress(config, adapter, st, CHOOSE r \in p.record : TRUE, fault)
      [] p.op = "loadProgress" ->
           loadProgress(config, adapter, st, p.formId, p.sessionId, fault)
      [] p.op = "deleteProgress" ->
           deleteProgress(adapter, st, p.formId, p.sessionId, fault)
      [] p.op = "clearAllProgress" ->
           clearAllProgress(adapter, st, fault)

\* The completion of a suspended call when its adapter call settles.
Resume(p, st, fault) ==
    CASE p.op = "saveProgress" ->
           saveProgress([enabled |-> p.enabled], p.adapter, st,
                        CHOOSE r \in p.record : TRUE, fault)
      [] p.op = "loadProgress" ->
           loadProgress([enabled |-> p.enabled], p.adapter, st, p.formId, p.sessionId, fault)
      [] p.op = "deleteProgress" ->
           deleteProgress(p.adapter, st, p.formId, p.sessionId, fault)
      [] p.op = "clearAllProgress" ->
           clearAllProgress(p.adapter, st, fault)

\* The call operates on key k.
Touches(p, k) == p.op = "clearAllProgress" \/ generateKey(p.formId, p.sessionId) = k

NoLanded == [kind |-> "none", record |-> {}, medium |-> "none", seq |-> 0]
NoHistory ==
    [landed     |-> [k \in Keys |-> NoLanded],
     overlapped |-> [k \in Keys |-> FALSE]]

(***************************************************************************)
(* updateConfig: shallow merge, then rebuild the adapter when the supplied *)
(* storage is truthy.  The merged configuration is assigned before         *)
(* createAdapter runs, so it stays assigned when createAdapter throws.     *)
(***************************************************************************)
Merge(old, supplied) == IF supplied = {} THEN old ELSE CHOOSE v \in supplied : TRUE

MergeConfig(cfg, newConfig) ==
    [enabled       |-> Merge(cfg.enabled, newConfig.enabled),
     storage       |-> Merge(cfg.storage, newConfig.storage),
     retentionDays |-> Merge(cfg.retentionDays, newConfig.retentionDays)]

\* if (newConfig.storage): supplied and not the empty string
Truthy(supplied) == supplied # {} /\ supplied # {""}

updateConfig(cfg, adp, newConfig) ==
    LET merged == MergeConfig(cfg, newConfig)
    IN  IF Truthy(newConfig.storage)
        THEN LET made == createAdapter(CHOOSE s \in newConfig.storage : TRUE)
             IN  [config  |-> merged,
                  adapter |-> IF made.threw = {} THEN made.adapter ELSE adp,
                  threw   |-> made.threw]
        ELSE [config |-> merged, adapter |-> adp, threw |-> {}]

(***************************************************************************)
(* calculateCompletionPercentage.  A JavaScript field value is modelled by *)
(* its type and its size (the length of a string or array, the value of a  *)
(* number, 1 for true): these are what the filter looks at.                *)
(***************************************************************************)
JsValue(type, size) == [type |-> type, size |-> size]
JsNull == JsValue("null", 0)
JsUndefined == JsValue("undefined", 0)
JsValues ==
    {JsNull, JsUndefined,
     JsValue("string", 0), JsValue("string", 1),    \* '' and 'x'
     JsValue("number", 0), JsValue("boolean", 0),   \* 0 and false
     JsValue("array", 0), JsValue("array", 1)}      \* [] and [1]

\* formData: Record<string, any> with up to MaxFields fields (named 1, 2, ..).
FieldNames == 1..MaxFields
FormDataMaps == UNION {[names -> JsValues] : names \in SUBSET FieldNames}

\* The filter callback of lines 56-60.
IsFilledValue(value) ==
    IF value = JsNull \/ value = JsUndefined \/ value = JsValue("string", 0)
    THEN FALSE
    ELSE IF value.type = "array" /\ value.size = 0
         THEN FALSE
         ELSE TRUE

\* Object.values(formData).filter(...).length
filledFields(formData) ==
    Cardinality({name \in DOMAIN formData : IsFilledValue(formData[name])})

\* Math.round((filled / total) * 100) for filled >= 0 and total >= 1: the
\* nearest integer, a half rounding up.
MathRoundPercent(filled, total) == (200 * filled + total) \div (2 * total)

\* Variant: Math.floor in place of Math.round.
calculateCompletionPercentageFloor(formData, totalFields) ==
    IF totalFields = 0 THEN 0
    ELSE (100 * filledFields(formData)) \div totalFields

calculateCompletionPercentage(formData, totalFields) ==
    IF totalFields = 0 THEN 0
    ELSE MathRoundPercent(filledFields(formData), totalFields)

NoCalc == [formData |-> <<>>, totalFields |-> 0, result |-> {}]

(***************************************************************************)
(* createProgress.  `now` is the clock reading of `new Date()`;             *)
(* currentStep, totalSteps and userId are optional.  Times are counted in  *)
(* seconds, the code's milliseconds with the factor 1000 divided out of    *)
(* both the clock reading and the retention window (a window of 30 days in *)
(* milliseconds exceeds the model checker's integers).                     *)
(***************************************************************************)
MsPerDay == 24 * 60 * 60

\* A parameter default: applies when the argument is omitted.
Default(arg, default) == IF arg = {} THEN default ELSE CHOOSE v \in arg : TRUE

\* Variant: the step count is passed as the number of fields.
createProgressStepsAsFields(cfg, formId, sessionId, formData, currentStep, totalSteps, userId, now) ==
    [id |-> generateKey(formId, sessionId),
     formId |-> formId,
     userId |-> userId,
     sessionId |-> sessionId,
     formData |-> formData,
     currentStep |-> Default(currentStep, 0),
     totalSteps |-> Default(totalSteps, 1),
     completionPercentage |->
         calculateCompletionPercentage(formData, Default(totalSteps, 1)),
     lastUpdated |-> now,
     expiresAt |-> now + cfg.retentionDays * MsPerDay]

\* Variant: the retention window is added in hours, not days.
createProgressHours(cfg, formId, sessionId, formData, currentStep, totalSteps, userId, now) ==
    [id |-> generateKey(formId, sessionId),
     formId |-> formId,
     userId |-> userId,
     sessionId |-> sessionId,
     formData |-> formData,
     currentStep |-> Default(currentStep, 0),
     totalSteps |-> Default(totalSteps, 1),
     completionPercentage |->
         calculateCompletionPercentage(formData, Cardinality(DOMAIN formData)),
     lastUpdated |-> now,
     expiresAt |-> now + cfg.retentionDays * 60 * 60]

createProgress(cfg, formId, sessionId, formData, currentStep, totalSteps, userId, now) ==
    LET expiresAt == now + cfg.retentionDays * MsPerDay
        totalFields == Cardinality(DOMAIN formData)    \* Object.keys(formData).length
        completionPercentage == calculateCompletionPercentage(formData, totalFields)
    IN  [id |-> generateKey(formId, sessionId),
         formId |-> formId,
         userId |-> userId,
         sessionId |-> sessionId,
         formData |-> formData,
         currentStep |-> Default(currentStep, 0),
         totalSteps |-> Default(totalSteps, 1),
         completionPercentage |-> completionPercentage,
         lastUpdated |-> now,
         expiresAt |-> expiresAt]

\* Inputs of createProgress calls: form data over '', 'x' and [], two clock
\* readings, each optional argument omitted or given.
CreateFormDatas ==
    {f \in FormDataMaps :
       \A name \in DOMAIN f :
         f[name] \in {JsValue("string", 0), JsValue("string", 1), JsValue("array", 0)}}
Times == {0, 1}
CreateInputs ==
    [configs |-> {c \in Configs : c.enabled /\ c.storage = "localStorage"},
     partials |-> {p \in PartialConfigs : p.enabled = {} /\ p.storage = {}},
     pairs |-> SwitchPairs, records |-> {}, faults |-> Faults, maxOps |-> MaxCreateOps,
     formDatas |-> CreateFormDatas, times |-> Times,
     currentSteps |-> Optional({1}), totalSteps |-> Optional({3}),
     userIds |-> Optional({"user1"})]

(***************************************************************************)
(* The guard views PremiumGuard and PremiumGuardOptimized.  hasPremium is  *)
(* boolean | null ({} is null); user is any value, here null, undefined or *)
(* an identity object; children is the protected content.                  *)
(***************************************************************************)
Users == {JsNull, JsUndefined, JsValue("object", 1)}
Children == {"builder", "preview"}
GuardProps ==
    [user : Users, hasPremium : Optional(BOOLEAN), authLoading : BOOLEAN,
     checking : BOOLEAN, children : Children]

\* JavaScript truthiness of a value.
JsTruthy(value) ==
    /\ value.type \notin {"null", "undefined"}
    /\ value.type \in {"string", "number", "boolean"} => value.size # 0

Rendered(view, element) == [view |-> view, element |-> element]

\* Variant: the paywall test runs before the loading test.
PremiumGuardPaywallFirst(props) ==
    IF ~(JsTruthy(props.user) /\ props.hasPremium = {TRUE})
    THEN Rendered("paywall", "Requires Premium")
    ELSE IF props.authLoading \/ props.checking \/ props.hasPremium = {}
         THEN Rendered("loading", "Loader")
         ELSE Rendered("content", props.children)

PremiumGuard(props) ==
    IF props.authLoading \/ props.checking \/ props.hasPremium = {}
    THEN Rendered("loading", "Loader")
    ELSE IF ~(JsTruthy(props.user) /\ props.hasPremium = {TRUE})
         THEN Rendered("paywall", "Requires Premium")
         ELSE Rendered("content", props.children)

PremiumGuardOptimized(props) ==
    IF props.authLoading \/ props.checking \/ props.hasPremium = {}
    THEN Rendered("loading", "AIBuilderSkeleton")
    ELSE IF ~(JsTruthy(props.user) /\ props.hasPremium = {TRUE})
         THEN Rendered("paywall", "Requires Premium")
         ELSE Rendered("content", props.children)

NoRender ==
    [component |-> "none",
     props |-> [user |-> JsNull, hasPremium |-> {}, authLoading |-> FALSE,
                checking |-> FALSE, children |-> ""],
     rendered |-> Rendered("none", "")]

(***************************************************************************)
(* State machine                                                           *)
(***************************************************************************)
NoConfig == [enabled |-> FALSE, storage |-> "", retentionDays |-> 7]
NoPartial == [enabled |-> {}, storage |-> {}, retentionDays |-> {}]
NoWrite ==
    [kind |-> "none", record |-> {}, medium |-> "none", everSaved |-> FALSE,
     recreated |-> FALSE, enabled |-> FALSE]

Op(op, formId, sessionId, record, supplied, enabled, fault, c) ==
    [op |-> op, formId |-> formId, sessionId |-> sessionId, record |-> record,
     supplied |-> supplied, enabled |-> enabled, fault |-> fault,
     outcome |-> c.outcome, error |-> c.error, result |-> c.result,
     calls |-> c.calls, logged |-> c.logged]

Init ==
    /\ constructed = FALSE
    /\ config = NoConfig
    /\ adapter = NoAdapter
    /\ store = [m \in Media |-> [k \in Keys |-> {}]]
    /\ lastOp = Op("none", "", "", {}, NoPartial, FALSE, {},
                   Completion("returned", {}, {}, <<>>, FALSE, {}))
    /\ lastWrite = [k \in Keys |-> NoWrite]
    /\ nOps = 0
    /\ calc = NoCalc
    /\ created = {}
    /\ guard = NoRender
    /\ inFlight = {}
    /\ settled = {}
    /\ history = NoHistory

\* new FormProgressStorage(cfg)
Construct(I) ==
    /\ ~constructed
    /\ nOps = 0
    /\ \E cfg \in I.configs :
         LET made == createAdapter(cfg.storage)
             supplied == [enabled |-> {cfg.enabled}, storage |-> {cfg.storage},
                          retentionDays |-> {cfg.retentionDays}]
         IN  /\ constructed' = (made.threw = {})
             /\ config' = IF made.threw = {} THEN cfg ELSE NoConfig
             /\ adapter' = made.adapter
             /\ lastOp' = Op("constructor", "", "", {}, supplied, cfg.enabled, {},
                             Completion(IF made.threw = {} THEN "returned" ELSE "threw",
                                        made.threw, {}, <<>>, FALSE, {}))
    /\ nOps' = 1
    /\ UNCHANGED <<store, lastWrite>>
    /\ UNCHANGED auxVars

SaveProgress(I) ==
    /\ constructed
    /\ nOps < I.maxOps
    /\ \E progress \in I.records, fault \in I.faults :
         LET c == saveProgress(config, adapter, store, progress, fault)
             key == generateKey(progress.formId, progress.sessionId)
         IN  /\ store' = c.store
             /\ lastOp' = Op("saveProgress", progress.formId, progress.sessionId,
                             {progress}, NoPartial, config.enabled, fault, c)
             /\ lastWrite' = IF config.enabled /\ c.outcome = "returned"
                             THEN [lastWrite EXCEPT ![key] =
                                     [kind |-> "save", record |-> {progress},
                                      medium |-> MediumOf(adapter), everSaved |-> TRUE,
                                      recreated |-> lastWrite[key].kind = "delete",
                                      enabled |-> config.enabled]]
                             ELSE lastWrite
    /\ nOps' = nOps + 1
    /\ UNCHANGED <<constructed, config, adapter>>
    /\ UNCHANGED auxVars

LoadProgress(I) ==
    /\ constructed
    /\ nOps < I.maxOps
    /\ \E p \in I.pairs, fault \in I.faults :
         LET formId == p[1]
             sessionId == p[2]
             c == loadProgress(config, adapter, store, formId, sessionId, fault)
         IN  /\ store' = c.store
             /\ lastOp' = Op("loadProgress", formId, sessionId, {}, NoPartial,
                             config.enabled, fault, c)
    /\ nOps' = nOps + 1
    /\ UNCHANGED <<constructed, config, adapter, lastWrite>>
    /\ UNCHANGED auxVars

DeleteProgress(I) ==
    /\ constructed
    /\ nOps < I.maxOps
    /\ \E p \in I.pairs, fault \in I.faults :
         LET formId == p[1]
             sessionId == p[2]
             c == deleteProgress(adapter, store, formId, sessionId, fault)
             key == generateKey(formId, sessionId)
         IN  /\ store' = c.store
             /\ lastOp' = Op("deleteProgress", formId, sessionId, {}, NoPartial,
                             config.enabled, fault, c)
             /\ lastWrite' = IF c.outcome = "returned"
                             THEN [lastWrite EXCEPT ![key] =
                                     [kind |-> "delete", record |-> {},
                                      medium |-> MediumOf(adapter),
                                      everSaved |-> lastWrite[key].everSaved,
                                      recreated |-> FALSE,
                                      enabled |-> config.enabled]]
                             ELSE lastWrite
    /\ nOps' = nOps + 1
    /\ UNCHANGED <<constructed, config, adapter>>
    /\ UNCHANGED auxVars

ClearAllProgress(I) ==
    /\ constructed
    /\ nOps < I.maxOps
    /\ \E fault \in I.faults :
         LET c == clearAllProgress(adapter, store, fault)
         IN  /\ store' = c.store
             /\ lastOp' = Op("clearAllProgress", "", "", {}, NoPartial,
                             config.enabled, fault, c)
             /\ lastWrite' = IF c.outcome = "returned"
                             THEN [k \in Keys |->
                                     [kind |-> "clear", record |-> {},
                                      medium |-> MediumOf(adapter),
                                      everSaved |-> lastWrite[k].everSaved,
                                      recreated |-> FALSE,
                                      enabled |-> config.enabled]]
                             ELSE lastWrite
    /\ nOps' = nOps + 1
    /\ UNCHANGED <<constructed, config, adapter>>
    /\ UNCHANGED auxVars

UpdateConfig(I) ==
    /\ constructed
    /\ nOps < I.maxOps
    /\ \E newConfig \in I.partials :
         LET u == updateConfig(config, adapter, newConfig)
         IN  /\ config' = u.config
             /\ adapter' = u.adapter
             /\ lastOp' = Op("updateConfig", "", "", {}, newConfig, config.enabled, {},
                             Completion(IF u.threw = {} THEN "returned" ELSE "threw",
                                        u.threw, {}, <<>>, FALSE, {}))
    /\ nOps' = nOps + 1
    /\ UNCHANGED <<constructed, store, lastWrite>>
    /\ UNCHANGED auxVars

Step(I) ==
    \/ Construct(I)
    \/ SaveProgress(I)
    \/ LoadProgress(I)
    \/ DeleteProgress(I)
    \/ ClearAllProgress(I)
    \/ UpdateConfig(I)

Next == Step(AllInputs)

Spec == Init /\ [][Next]_vars

\* Longer call sequences over the narrower inputs.
NextSwitch == Step(SwitchInputs)

SpecSwitch == Init /\ [][NextSwitch]_vars

\* createProgress(formId, sessionId, formData, currentStep?, totalSteps?, userId?)
\* The call reads its arguments and the configuration only, so one call is
\* followed in each behaviour, at any point between configuration updates.
CreateProgress(I) ==
    /\ constructed
    /\ created = {}
    /\ \E p \in I.pairs, formData \in I.formDatas, currentStep \in I.currentSteps,
          totalSteps \in I.totalSteps, userId \in I.userIds, now \in I.times :
         created' = {[formId |-> p[1], sessionId |-> p[2], formData |-> formData,
                      currentStep |-> currentStep, totalSteps |-> totalSteps,
                      userId |-> userId, now |-> now,
                      record |-> createProgress(config, p[1], p[2], formData,
                                                currentStep, totalSteps, userId, now)]}
    /\ UNCHANGED <<managerVars, calc, guard, overlapVars>>

\* Record construction under a configuration whose retentionDays is updated.
NextCreate ==
    \/ Construct(CreateInputs)
    \/ UpdateConfig(CreateInputs)
    \/ CreateProgress(CreateInputs)

SpecCreate == Init /\ [][NextCreate]_vars

(***************************************************************************)
(* Calls that are not awaited: a call is issued and suspends at its await; *)
(* suspended calls resume in any order.  history keeps, per key, the write *)
(* issued last among those that took effect, and whether a call on the key *)
(* was issued while another was suspended.                                 *)
(***************************************************************************)
Issue(I, op, formId, sessionId, record) ==
    /\ constructed
    /\ nOps < I.maxOps
    /\ Cardinality(inFlight) < MaxInFlight
    /\ LET p == Suspended(nOps, op, formId, sessionId, record, config, adapter)
       IN  /\ inFlight' = inFlight \cup {p}
           /\ history' =
                [landed |-> history.landed,
                 overlapped |->
                   [k \in Keys |->
                      \/ history.overlapped[k]
                      \/ (Touches(p, k) /\ \E q \in inFlight : Touches(q, k))]]
    /\ nOps' = nOps + 1
    /\ UNCHANGED <<constructed, config, adapter, store, lastOp, lastWrite>>
    /\ UNCHANGED <<calc, created, guard, settled>>

IssueSaveProgress(I) ==
    \E progress \in I.records :
        Issue(I, "saveProgress", progress.formId, progress.sessionId, {progress})

IssueLoadProgress(I) ==
    \E p \in I.pairs : Issue(I, "loadProgress", p[1], p[2], {})

IssueDeleteProgress(I) ==
    \E p \in I.pairs : Issue(I, "deleteProgress", p[1], p[2], {})

IssueClearAllProgress(I) == Issue(I, "clearAllProgress", "", "", {})

\* The adapter call of a suspended call settles and the call resumes.
Resolve(I) ==
    /\ \E p \in inFlight, fault \in I.faults :
         LET c == Resume(p, store, fault)
             tookEffect == /\ p.op # "loadProgress"
                           /\ c.outcome = "returned"
                           /\ c.calls # <<>>
         IN  /\ store' = c.store
             /\ lastOp' = Op(p.op, p.formId, p.sessionId, p.record, NoPartial,
                             p.enabled, fault, c)
             /\ inFlight' = inFlight \ {p}
             /\ settled' = {p}
             /\ history' =
                  [history EXCEPT !.landed =
                     [k \in Keys |->
                        IF tookEffect /\ Touches(p, k) /\ p.seq > history.landed[k].seq
                        THEN [kind |-> p.op, record |-> p.record,
                              medium |-> MediumOf(p.adapter), seq |-> p.seq]
                        ELSE history.landed[k]]]
    /\ UNCHANGED <<constructed, config, adapter, lastWrite, nOps>>
    /\ UNCHANGED <<calc, created, guard>>

NextOverlap ==
    \/ Construct(OverlapInputs)
    \/ UpdateConfig(OverlapInputs)
    \/ IssueSaveProgress(OverlapInputs)
    \/ IssueLoadProgress(OverlapInputs)
    \/ IssueDeleteProgress(OverlapInputs)
    \/ IssueClearAllProgress(OverlapInputs)
    \/ Resolve(OverlapInputs)

SpecOverlap == Init /\ [][NextOverlap]_vars

(***************************************************************************)
(* The guard views: each render is given props and returns one element.    *)
(***************************************************************************)
RenderPremiumGuard ==
    /\ \E props \in GuardProps :
         guard' = [component |-> "PremiumGuard", props |-> props,
                   rendered |-> PremiumGuard(props)]
    /\ UNCHANGED <<managerVars, calc, created, overlapVars>>

RenderPremiumGuardOptimized ==
    /\ \E props \in GuardProps :
         guard' = [component |-> "PremiumGuardOptimized", props |-> props,
                   rendered |-> PremiumGuardOptimized(props)]
    /\ UNCHANGED <<managerVars, calc, created, overlapVars>>

NextGuard ==
    \/ RenderPremiumGuard
    \/ RenderPremiumGuardOptimized

SpecGuard == Init /\ [][NextGuard]_vars

(***************************************************************************)
(* calculateCompletionPercentage as a pure function: the arguments are     *)
(* drawn, the call computes the result.                                    *)
(***************************************************************************)
InitCalc ==
    /\ constructed = FALSE
    /\ config = NoConfig
    /\ adapter = NoAdapter
    /\ store = [m \in Media |-> [k \in Keys |-> {}]]
    /\ lastOp = Op("none", "", "", {}, NoPartial, FALSE, {},
                   Completion("returned", {}, {}, <<>>, FALSE, {}))
    /\ lastWrite = [k \in Keys |-> NoWrite]
    /\ nOps = 0
    /\ \E formData \in FormDataMaps, totalFields \in 0..MaxTotalFields :
         calc = [formData |-> formData, totalFields |-> totalFields, result |-> {}]
    /\ created = {}
    /\ guard = NoRender
    /\ inFlight = {}
    /\ settled = {}
    /\ history = NoHistory

CalculateCompletionPercentage ==
    /\ calc.result = {}
    /\ calc' = [calc EXCEPT
                  !.result = {calculateCompletionPercentage(calc.formData, calc.totalFields)}]
    /\ UNCHANGED <<managerVars, created, guard, overlapVars>>

NextCalc == CalculateCompletionPercentage

SpecCalc == InitCalc /\ [][NextCalc]_vars

TypeOK ==
    /\ constructed \in BOOLEAN
    /\ config \in Configs
    /\ adapter \in AdapterKinds \cup {NoAdapter}
    /\ \A m \in Media, k \in Keys : store[m][k] \subseteq Records /\ Cardinality(store[m][k]) <= 1
    /\ nOps \in 0..MaxSwitchOps
(***************************************************************************)
(* Properties                                                              *)
(***************************************************************************)
IsLoad == lastOp.op = "loadProgress"
IsWrite == lastOp.op \in {"saveProgress", "deleteProgress", "clearAllProgress"}
\* The key the latest saveProgress / loadProgress / deleteProgress call derived.
LastKey == generateKey(lastOp.formId, lastOp.sessionId)
\* The latest completed write through the manager that touched LastKey.
LastWritten == lastWrite[LastKey]
\* The adapter of the latest call was invoked (every call but a disabled save / load).
Delegated == lastOp.calls # <<>>

\* C1 (as stated): when the latest completed write to a key was a
\* saveProgress(r) on an enabled manager (no deleteProgress of that key and
\* no clearAllProgress since), loadProgress of that key returns r.
C1_RoundTripAsStated ==
    (IsLoad /\ LastWritten.kind = "save") => lastOp.result = LastWritten.record

\* C1 (amended): the same, provided the load runs on an enabled manager bound
\* to the storage medium the save went to and the adapter's load does not
\* fail; this includes a save that recreates a record after a delete.
C1_RoundTrip ==
    (/\ IsLoad
     /\ LastWritten.kind = "save"
     /\ lastOp.enabled
     /\ lastOp.fault = {}
     /\ LastWritten.medium = MediumOf(adapter))
    => (lastOp.outcome = "returned" /\ lastOp.result = LastWritten.record)

\* A load that returned the record a save stored after a delete of the same key.
C1_Witness ==
    /\ IsLoad
    /\ LastWritten.kind = "save"
    /\ LastWritten.recreated
    /\ lastOp.result # {}
    /\ lastOp.result = LastWritten.record
    /\ \A r \in lastOp.result :
         r.formId = lastOp.formId /\ r.sessionId = lastOp.sessionId

\* C2 (as stated): when the latest completed write to a key was a
\* deleteProgress of it (no save of the key since), loadProgress of that key
\* returns absent; and a delete the adapter accepts succeeds.
C2_AbsentAfterDeleteAsStated ==
    /\ (IsLoad /\ LastWritten.kind = "delete") => lastOp.result = {}
    /\ (lastOp.op = "deleteProgress" /\ lastOp.fault = {}) => lastOp.outcome = "returned"

\* C2 (amended): the same, provided the load runs against the storage medium
\* the delete ran against.
C2_AbsentAfterDelete ==
    /\ (IsLoad /\ LastWritten.kind = "delete" /\ LastWritten.medium = MediumOf(adapter))
         => (lastOp.outcome = "returned" /\ lastOp.result = {})
    /\ (lastOp.op = "deleteProgress" /\ lastOp.fault = {}) => lastOp.outcome = "returned"

\* An enabled, unfailed load of a key that was saved and then deleted.
C2_Witness ==
    /\ IsLoad
    /\ lastOp.enabled
    /\ lastOp.fault = {}
    /\ LastWritten.kind = "delete"
    /\ LastWritten.everSaved
    /\ LastWritten.medium = MediumOf(adapter)
    /\ lastOp.result = {}

\* C3 (as stated): when the latest completed write to a key saved earlier was
\* a clearAllProgress (the key not saved again since), loadProgress of that
\* key returns absent.
C3_AbsentAfterClearAsStated ==
    (IsLoad /\ LastWritten.kind = "clear" /\ LastWritten.everSaved) => lastOp.result = {}

\* C3 (amended): the same, provided the load runs against the storage medium
\* that was cleared.
C3_AbsentAfterClear ==
    (/\ IsLoad
     /\ LastWritten.kind = "clear"
     /\ LastWritten.everSaved
     /\ LastWritten.medium = MediumOf(adapter))
    => (lastOp.outcome = "returned" /\ lastOp.result = {})

\* An enabled, unfailed load of a key that was saved and then cleared.
C3_Witness ==
    /\ IsLoad
    /\ lastOp.enabled
    /\ lastOp.fault = {}
    /\ LastWritten.kind = "clear"
    /\ LastWritten.everSaved
    /\ LastWritten.medium = MediumOf(adapter)
    /\ lastOp.result = {}

\* C4: a saveProgress called while config.enabled is false returns without
\* error, invokes no adapter and leaves every medium unchanged; a loadProgress
\* called while config.enabled is false returns absent and invokes no adapter.
C4_DisabledIsNoOp ==
    [][(nOps' = nOps + 1 /\ ~config.enabled)
         => /\ lastOp'.op = "saveProgress"
                 => (store' = store /\ lastOp'.outcome = "returned"
                     /\ lastOp'.error = {} /\ lastOp'.calls = <<>>)
            /\ lastOp'.op = "loadProgress"
                 => (store' = store /\ lastOp'.outcome = "returned"
                     /\ lastOp'.result = {} /\ lastOp'.calls = <<>>)]_vars

\* A disabled saveProgress of a record has returned and the record is not stored.
C4_Witness ==
    /\ lastOp.op = "saveProgress"
    /\ ~lastOp.enabled
    /\ lastOp.outcome = "returned"
    /\ store[MediumOf(adapter)][LastKey] # lastOp.record

\* The adapter variant a storage value selects (none for 'indexedDB').
MatchingVariant(storage) ==
    CASE storage = "localStorage"   -> "LocalStorageAdapter"
      [] storage = "sessionStorage" -> "SessionStorageAdapter"
      [] storage = "server"         -> "ServerStorageAdapter"
      [] storage = "indexedDB"      -> NoAdapter
      [] OTHER                      -> "LocalStorageAdapter"

\* C5: in every state of a constructed manager the bound adapter is the
\* variant the current config.storage selects.
C5_AdapterMatchesConfig ==
    constructed => (adapter \in AdapterKinds /\ adapter = MatchingVariant(config.storage))

\* C6: when the adapter call of saveProgress, deleteProgress or
\* clearAllProgress fails, the manager call throws that same error, after
\* logging it, having made exactly one adapter call.
C6_WriteFailuresSurface ==
    (IsWrite /\ Delegated /\ lastOp.fault # {})
    => (/\ lastOp.outcome = "threw"
        /\ lastOp.error = lastOp.fault
        /\ lastOp.logged
        /\ Len(lastOp.calls) = 1)

\* A write whose adapter call failed.
C6_Witness ==
    IsWrite /\ Delegated /\ lastOp.fault # {} /\ lastOp.outcome = "threw"

\* C7: loadProgress never throws; when the adapter's load fails it returns
\* absent.
C7_ReadFailuresSwallowed ==
    IsLoad => (/\ lastOp.outcome = "returned"
               /\ lastOp.error = {}
               /\ (Delegated /\ lastOp.fault # {}) => (lastOp.result = {} /\ lastOp.logged))

\* A load whose adapter call failed although a record is stored under the key.
C7_Witness ==
    /\ IsLoad
    /\ Delegated
    /\ lastOp.fault # {}
    /\ store[MediumOf(adapter)][LastKey] # {}
    /\ lastOp.result = {}

\* C8: constructing with storage 'indexedDB' throws; no manager and no
\* adapter results.
C8_IndexedDBFailsFast ==
    (lastOp.op = "constructor" /\ lastOp.supplied.storage = {"indexedDB"})
    => (/\ lastOp.outcome = "threw"
        /\ lastOp.error = {NotImplemented}
        /\ ~constructed
        /\ adapter = NoAdapter)

\* The constructor was called with storage 'indexedDB'.
C8_Witness ==
    /\ lastOp.op = "constructor"
    /\ lastOp.supplied.storage = {"indexedDB"}
    /\ lastOp.outcome = "threw"

\* C9: configuring (by the constructor or by updateConfig) an unrecognized
\* storage value binds what configuring 'localStorage' binds.  The manager's
\* results depend on the storage value only through the bound adapter, so
\* this is what behaving identically to 'localStorage' comes to.
C9_UnrecognizedIsLocalStorage ==
    (/\ lastOp.op \in {"constructor", "updateConfig"}
     /\ lastOp.supplied.storage # {}
     /\ lastOp.supplied.storage \cap DeclaredStorage = {})
    => (/\ lastOp.outcome = "returned"
        /\ adapter = MatchingVariant("localStorage"))

\* C10: a record loaded for a (formId, sessionId) pair is a record of that
\* pair: no save for a different pair has overwritten it.  This is what the
\* derived keys being equal only for equal pairs gives.
C10_KeysCollisionFree ==
    IsLoad => \A r \in lastOp.result :
                 r.formId = lastOp.formId /\ r.sessionId = lastOp.sessionId

\* The fields of formData that count as filled: the value is not null, not
\* undefined, not the empty string and not an empty sequence.
FilledCount(formData) ==
    Cardinality({name \in DOMAIN formData :
                   formData[name] \notin {JsNull, JsUndefined, JsValue("string", 0),
                                          JsValue("array", 0)}})

\* C11: for totalFields >= 1 the computed percentage lies in 0..100.
C11_PercentageInRange ==
    \A r \in calc.result : calc.totalFields >= 1 => (0 <= r /\ r <= 100)

\* C12: the result is 0 when totalFields = 0; otherwise it is the integer
\* nearest to 100 * filledCount / totalFields (a half rounding up), where
\* 0, false and non-empty sequences count as filled.
C12_PercentageFormula ==
    \A r \in calc.result :
        IF calc.totalFields = 0
        THEN r = 0
        ELSE /\ 2 * calc.totalFields * r <= 200 * FilledCount(calc.formData) + calc.totalFields
             /\ 200 * FilledCount(calc.formData) + calc.totalFields < 2 * calc.totalFields * (r + 1)

\* A call whose values are 0 and false, both counted as filled, with a ratio
\* that rounds up (2 of 3 gives 67).
C12_Witness ==
    /\ calc.result = {67}
    /\ calc.totalFields = 3
    /\ \E a, b \in DOMAIN calc.formData :
         calc.formData[a] = JsValue("number", 0) /\ calc.formData[b] = JsValue("boolean", 0)

\* C13: a createProgress call returns a record with id = formId_sessionId,
\* the given formId, sessionId, userId and formData, lastUpdated = now,
\* expiresAt = now + retentionDays days (of 86400 seconds) of the
\* configuration at the call,
\* currentStep 0 and totalSteps 1 when omitted; the call changes no stored
\* record and no manager state.
C13_RecordConstruction ==
    [][created' # created =>
         \A c \in created' :
            /\ c.record.id = c.formId \o "_" \o c.sessionId
            /\ c.record.formId = c.formId
            /\ c.record.sessionId = c.sessionId
            /\ c.record.userId = c.userId
            /\ c.record.formData = c.formData
            /\ c.record.lastUpdated = c.now
            /\ c.record.expiresAt = c.now + config.retentionDays * 86400
            /\ c.record.currentStep = (IF c.currentStep = {} THEN 0 ELSE CHOOSE v \in c.currentStep : TRUE)
            /\ c.record.totalSteps = (IF c.totalSteps = {} THEN 1 ELSE CHOOSE v \in c.totalSteps : TRUE)
            /\ store' = store
            /\ lastOp' = lastOp]_vars

\* A record created with the step arguments omitted and a 30-day expiry, on a
\* manager whose updateConfig call supplied retentionDays 30.
C13_Witness ==
    /\ lastOp.op = "updateConfig"
    /\ lastOp.supplied.retentionDays = {30}
    /\ \E c \in created :
         /\ c.currentStep = {} /\ c.totalSteps = {} /\ c.userId # {}
         /\ c.record.currentStep = 0 /\ c.record.totalSteps = 1
         /\ c.record.expiresAt = c.now + 30 * 86400

\* C14: the completionPercentage of every record createProgress returns is
\* an integer in 0..100: 0 for an empty formData, otherwise the nearest
\* integer to 100 * filled / (number of fields of formData).
C14_CreatedPercentage ==
    \A c \in created :
        LET fields == Cardinality(DOMAIN c.formData)
            pct == c.record.completionPercentage
        IN  /\ pct \in 0..100
            /\ IF fields = 0
               THEN pct = 0
               ELSE /\ 2 * fields * pct <= 200 * FilledCount(c.formData) + fields
                    /\ 200 * FilledCount(c.formData) + fields < 2 * fields * (pct + 1)

\* A record created from two fields, one of them filled: 50 percent, with
\* totalSteps given as 3.
C14_Witness ==
    \E c \in created :
        /\ Cardinality(DOMAIN c.formData) = 2
        /\ FilledCount(c.formData) = 1
        /\ c.totalSteps = {3}
        /\ c.record.completionPercentage = 50

\* The props of the latest render put the guard in the loading state.
GuardLoading ==
    guard.props.authLoading \/ guard.props.checking \/ guard.props.hasPremium = {}
\* The props of the latest render carry a user and a premium subscription.
GuardEntitled ==
    guard.props.user \notin {JsNull, JsUndefined} /\ guard.props.hasPremium = {TRUE}

\* C15: each render of either guard returns exactly one of the loading
\* placeholder, the paywall and the protected content: the placeholder iff
\* authLoading or checking or hasPremium is null; the content (the children)
\* iff none of those holds, a user is present and hasPremium is true; the
\* paywall otherwise.
C15_GuardDecision ==
    guard.component # "none" =>
        /\ guard.rendered.view \in {"loading", "paywall", "content"}
        /\ guard.rendered.view = "loading" <=> GuardLoading
        /\ guard.rendered.view = "content" <=> (~GuardLoading /\ GuardEntitled)
        /\ guard.rendered.view = "paywall" <=> (~GuardLoading /\ ~GuardEntitled)
        /\ guard.rendered.view = "content" => guard.rendered.element = guard.props.children
        /\ guard.rendered.view = "loading" =>
               guard.rendered.element \in {"Loader", "AIBuilderSkeleton"}

\* The optimized guard shows the placeholder, not the paywall, while checking
\* for a visitor without user.
C15_Witness ==
    /\ guard.component = "PremiumGuardOptimized"
    /\ guard.props.checking
    /\ guard.props.user = JsNull
    /\ guard.props.hasPremium = {FALSE}
    /\ guard.rendered.view = "loading"

\* C16 (as stated): deleteProgress and clearAllProgress invoke the bound
\* adapter whatever config.enabled is, and when the latest completed write
\* to a key was a deleteProgress or clearAllProgress made while the manager
\* was disabled, loadProgress of that key on the re-enabled manager returns
\* absent.
C16_DisabledRemovalAsStated ==
    (/\ IsLoad
     /\ lastOp.enabled
     /\ LastWritten.kind \in {"delete", "clear"}
     /\ ~LastWritten.enabled)
    => lastOp.result = {}

\* C16 (amended): deleteProgress and clearAllProgress make exactly one call
\* to the bound adapter whatever config.enabled is, and a call the adapter
\* accepts leaves the key (every key, for clear) absent from that adapter's
\* medium; a loadProgress on the re-enabled manager returns absent provided
\* it runs against the medium the disabled delete or clear ran against.
C16_DisabledRemoval ==
    /\ lastOp.op = "deleteProgress" =>
         /\ lastOp.calls = <<Call(adapter, "delete", LastKey)>>
         /\ lastOp.outcome = "returned" => store[MediumOf(adapter)][LastKey] = {}
    /\ lastOp.op = "clearAllProgress" =>
         /\ lastOp.calls = <<Call(adapter, "clear", "")>>
         /\ lastOp.outcome = "returned" => \A k \in Keys : store[MediumOf(adapter)][k] = {}
    /\ (/\ IsLoad
        /\ lastOp.enabled
        /\ LastWritten.kind \in {"delete", "clear"}
        /\ ~LastWritten.enabled
        /\ LastWritten.medium = MediumOf(adapter))
       => (lastOp.outcome = "returned" /\ lastOp.result = {})

\* A load on a re-enabled manager of a key that was saved and then deleted
\* while the manager was disabled.
C16_Witness ==
    /\ IsLoad
    /\ lastOp.enabled
    /\ lastOp.fault = {}
    /\ LastWritten.kind = "delete"
    /\ LastWritten.everSaved
    /\ ~LastWritten.enabled
    /\ LastWritten.medium = MediumOf(adapter)
    /\ lastOp.result = {}

\* C17: an updateConfig call replaces each supplied field of the
\* configuration and retains every unsupplied one, and leaves the stored
\* records unchanged; when it does not supply storage the bound adapter is
\* unchanged; when it changes config.storage the adapter bound after the call
\* is the variant the new config.storage selects.
C17_ShallowMergeAndRebind ==
    [][(lastOp'.op = "updateConfig" /\ nOps' = nOps + 1)
         => /\ \A f \in {"enabled", "storage", "retentionDays"} :
                 /\ lastOp'.supplied[f] = {} => config'[f] = config[f]
                 /\ lastOp'.supplied[f] # {} => config'[f] \in lastOp'.supplied[f]
            /\ store' = store
            /\ lastOp'.supplied.storage = {} => adapter' = adapter
            /\ config'.storage # config.storage
                 => adapter' = MatchingVariant(config'.storage)]_vars

\* No call on key k is suspended and no call on it was ever issued while
\* another call on it was suspended: the caller awaited each one.
Awaited(k) ==
    /\ ~history.overlapped[k]
    /\ \A p \in inFlight : ~Touches(p, k)

\* C18 (as stated): when the caller awaited each operation on a key before
\* issuing the next, the record stored for the key (the one the bound adapter
\* holds) and the result of an enabled, unfailed load of the key are those of
\* the most recently issued write of the key that took effect: the record of
\* a save, absent after a delete or a clear.
C18_AwaitedReflectsLatestAsStated ==
    \A k \in Keys :
        (constructed /\ Awaited(k) /\ history.landed[k].kind # "none")
        => /\ store[MediumOf(adapter)][k] = history.landed[k].record
           /\ (IsLoad /\ LastKey = k /\ lastOp.enabled /\ lastOp.fault = {})
              => lastOp.result = history.landed[k].record

\* C18 (amended): the same, for the record held by the medium that write
\* went to and for loads through an adapter of that medium.
C18_AwaitedReflectsLatest ==
    \A k \in Keys :
        (Awaited(k) /\ history.landed[k].kind # "none")
        => /\ store[history.landed[k].medium][k] = history.landed[k].record
           /\ (/\ IsLoad
               /\ LastKey = k
               /\ lastOp.enabled
               /\ lastOp.fault = {}
               /\ \A p \in settled : MediumOf(p.adapter) = history.landed[k].medium)
              => lastOp.result = history.landed[k].record

\* Two saves of a key overlapped and the one issued first resumed last: the
\* record left stored is the one of the earlier-issued save.
C18_Witness ==
    \E k \in Keys :
        /\ history.overlapped[k]
        /\ inFlight = {}
        /\ history.landed[k].kind = "saveProgress"
        /\ \E p \in settled :
             /\ p.op = "saveProgress"
             /\ p.seq < history.landed[k].seq
             /\ MediumOf(p.adapter) = history.landed[k].medium
             /\ store[MediumOf(p.adapter)][k] = p.record
             /\ p.record # history.landed[k].record

\* C19: a call that resumes invokes the adapter that was bound when it was
\* called, on the enabled flag it read then, whatever config and adapter are
\* now: a save called enabled stores its record in that adapter's medium, a
\* save or load called disabled does nothing, a load reads that adapter's
\* medium, a delete or clear empties it; no other medium changes, and config
\* and the bound adapter are not touched.
C19_CallTimeBinding ==
    [][settled' # settled =>
         \A p \in settled' :
            LET key == generateKey(p.formId, p.sessionId)
                m == MediumOf(p.adapter)
                ok == lastOp'.fault = {}
                delegated == p.op \in {"deleteProgress", "clearAllProgress"} \/ p.enabled
            IN  /\ p \in inFlight
                /\ config' = config /\ adapter' = adapter
                /\ \A other \in Media \ {m} : store'[other] = store[other]
                /\ ~delegated => (lastOp'.calls = <<>> /\ store' = store
                                   /\ lastOp'.outcome = "returned" /\ lastOp'.result = {})
                /\ delegated =>
                     /\ Len(lastOp'.calls) = 1
                     /\ lastOp'.calls[1].adapter = p.adapter
                     /\ ~ok => store' = store
                     /\ (ok /\ p.op = "saveProgress") =>
                            store'[m] = [store[m] EXCEPT ![key] = p.record]
                     /\ (ok /\ p.op = "loadProgress") =>
                            (store' = store /\ lastOp'.result = store[m][key])
                     /\ (ok /\ p.op = "deleteProgress") =>
                            store'[m] = [store[m] EXCEPT ![key] = {}]
                     /\ (ok /\ p.op = "clearAllProgress") =>
                            store'[m] = [k \in Keys |-> {}]]_vars

\* A save called on an enabled manager bound to localStorage resumed after
\* updateConfig had disabled the manager and bound sessionStorage: its record
\* is in localStorage.
C19_Witness ==
    /\ ~config.enabled
    /\ adapter = "SessionStorageAdapter"
    /\ lastOp.op = "saveProgress"
    /\ lastOp.outcome = "returned"
    /\ \E p \in settled :
         /\ p.op = "saveProgress"
         /\ p.enabled
         /\ p.adapter = "LocalStorageAdapter"
         /\ store["localStorage"][generateKey(p.formId, p.sessionId)] = p.record
         /\ store["sessionStorage"][generateKey(p.formId, p.sessionId)] = {}

====
